---- MODULE Spec2Model ----
(***************************************************************************)
(* A model of scriptGenerator.py: generate_sqlcmd, open_csv_safely and the *)
(* run_tool caller that invokes them.                                      *)
(*                                                                         *)
(* Text is a sequence of tokens.  A token is one character of input data   *)
(* (a letter, a blank, a quote, one byte of the CSV file) or one literal   *)
(* chunk of the generated script, which the program never splits.  "\n" is *)
(* the newline token.  The output text is the line list joined by "\n".    *)
(***************************************************************************)
EXTENDS Integers, Sequences, FiniteSets, TLC

\* ------------------------------------------------------------------ bounds
MaxRows == 2
MaxRuns == 2
MaxClock == 3
TicksPerSecond == 2

\* ------------------------------------------------- sequences and formatting
RECURSIVE Join(_, _)
\* sep.join(parts) on token sequences.
Join(sep, parts) ==
    IF parts = <<>> THEN <<>>
    ELSE IF Len(parts) = 1 THEN parts[1]
    ELSE parts[1] \o sep \o Join(sep, Tail(parts))

DigitChar == <<"0", "1", "2", "3", "4", "5", "6", "7", "8", "9">>

RECURSIVE ToStr(_)
\* The decimal digits of a natural number, as an f-string's {i} formats it.
ToStr(n) == IF n < 10 THEN <<DigitChar[n + 1]>>
            ELSE ToStr(n \div 10) \o <<DigitChar[(n % 10) + 1]>>

Whitespace == {" ", "\t"}

RECURSIVE LStrip(_)
LStrip(s) == IF s /= <<>> /\ Head(s) \in Whitespace THEN LStrip(Tail(s)) ELSE s

RECURSIVE RStrip(_)
RStrip(s) == IF s /= <<>> /\ s[Len(s)] \in Whitespace
             THEN RStrip(SubSeq(s, 1, Len(s) - 1)) ELSE s

\* str.strip(): leading and trailing whitespace removed, inner kept.
Strip(s) == RStrip(LStrip(s))

\* ------------------------------------------------------- encodings (l.149)
encodings_to_try == <<"utf-8-sig", "cp1252">>

Ascii == {"a", "b", " ", "\"", "server", "database", "Server", "port"}
BOM == "xEFxBBxBF"

RECURSIVE Utf8Valid(_)
\* Whether a byte string is well-formed UTF-8: ASCII, the BOM triple, the
\* two-byte sequence C3 A9; a lone E9, C3, A9 or 81 is not.
Utf8Valid(bs) ==
    IF bs = <<>> THEN TRUE
    ELSE IF Head(bs) \in Ascii \cup {BOM} THEN Utf8Valid(Tail(bs))
    ELSE IF Head(bs) = "xC3" /\ Len(bs) >= 2 /\ bs[2] = "xA9"
         THEN Utf8Valid(Tail(Tail(bs)))
    ELSE FALSE

RECURSIVE Utf8Decode(_)
Utf8Decode(bs) ==
    IF bs = <<>> THEN <<>>
    ELSE IF Head(bs) = "xC3" THEN <<"U+00E9">> \o Utf8Decode(Tail(Tail(bs)))
    ELSE IF Head(bs) = BOM THEN <<"U+FEFF">> \o Utf8Decode(Tail(bs))
    ELSE <<Head(bs)>> \o Utf8Decode(Tail(bs))

\* cp1252 has no character for byte 81 (nor 8D, 8F, 90, 9D).
Cp1252Valid(bs) == \A k \in 1..Len(bs) : bs[k] /= "x81"

Cp1252Char(b) ==
    CASE b = "xE9" -> <<"U+00E9">>
      [] b = "xC3" -> <<"U+00C3">>
      [] b = "xA9" -> <<"U+00A9">>
      [] b = BOM   -> <<"U+00EF", "U+00BB", "U+00BF">>
      [] OTHER     -> <<b>>

RECURSIVE Cp1252Decode(_)
Cp1252Decode(bs) ==
    IF bs = <<>> THEN <<>> ELSE Cp1252Char(Head(bs)) \o Cp1252Decode(Tail(bs))

FieldValid(enc, bs) == IF enc = "cp1252" THEN Cp1252Valid(bs) ELSE Utf8Valid(bs)
FieldDecode(enc, bs) == IF enc = "cp1252" THEN Cp1252Decode(bs) ELSE Utf8Decode(bs)

\* A CSV file is a sequence of records, a record a sequence of fields, a
\* field a byte string.
Decodable(enc, file) ==
    \A r \in 1..Len(file) : \A c \in 1..Len(file[r]) : FieldValid(enc, file[r][c])

\* utf-8-sig drops one BOM at the very start of the stream.
DropSig(enc, recs) ==
    IF enc = "utf-8-sig" /\ recs /= <<>> /\ recs[1] /= <<>>
       /\ recs[1][1] /= <<>> /\ recs[1][1][1] = "U+FEFF"
    THEN [recs EXCEPT ![1][1] = Tail(@)]
    ELSE recs

DecodeFile(enc, file) ==
    DropSig(enc, [r \in 1..Len(file) |->
                    [c \in 1..Len(file[r]) |-> FieldDecode(enc, file[r][c])]])

\* ------------------------------------------------- csv.DictReader (l.111)
ServerCol == <<"server">>
DatabaseCol == <<"database">>

\* DictReader.fieldnames: the first record of the stream, None when the
\* stream has no record at all.
Fieldnames(recs) ==
    IF recs = <<>> THEN [isNone |-> TRUE, names |-> <<>>]
    ELSE [isNone |-> FALSE, names |-> recs[1]]

RECURSIVE SkipBlank(_)
\* DictReader.__next__ passes over records with no field (blank lines).
SkipBlank(recs) ==
    IF recs /= <<>> /\ Head(recs) = <<>> THEN SkipBlank(Tail(recs)) ELSE recs

\* row[key] of dict(zip(fieldnames, record)): the field under the last header
\* column named key; None (restval) when the record is too short to reach a
\* column of that name.
RowGet(names, rec, key) ==
    LET ks == {k \in 1..Len(names) : names[k] = key}
        k  == CHOOSE j \in ks : \A m \in ks : m <= j
    IN  IF \A m \in ks : m <= Len(rec) THEN [isNone |-> FALSE, val |-> rec[k]]
        ELSE [isNone |-> TRUE, val |-> <<>>]

\* ---------------------------------------------- header check (l.114-119)
HeaderOkAnyOrder(fn) ==
    /\ ~fn.isNone
    /\ Len(fn.names) = 2
    /\ {fn.names[1], fn.names[2]} = {ServerCol, DatabaseCol}

\* reader.fieldnames != ["server", "database"] is a list comparison.
HeaderOk(fn) == ~fn.isNone /\ fn.names = <<ServerCol, DatabaseCol>>

\* ------------------------------------------------ script text (l.69-134)
NL == <<"\n">>
Q == "\""

BannerRows == <<
    <<"/*****************************************************************************************">>,
    <<"    ******************************************************************************************">>,
    <<"    **                                                                                      **">>,
    <<"    **                                                                                      **">>,
    <<"    **                                                                                      **">>,
    <<"    **                                                                                      **">>,
    <<"    **   SQLCMD MODE REQUIRED                                                               **">>,
    <<"    **                                                                                      **">>,
    <<"    **   IMPORTANT: This script uses SQLCMD directives and will FAIL if                     **">>,
    <<"    **   SQLCMD Mode is not enabled.                                                        **">>,
    <<"    **                                                                                      **">>,
    <<"    **   REQUIRED STEPS IN SSMS:                                                            **">>,
    <<"    **                                                                                      **">>,
    <<"    **                Query -> SQLCMD Mode                                                  **">>,
    <<"    **                                                                                      **">>,
    <<"    **                                                                                      **">>,
    <<"    **                                                                                      **">>,
    <<"    **                                                                                      **">>,
    <<"    ******************************************************************************************">>,
    <<"    ******************************************************************************************/">>,
    <<"    ">> >>

\* One string holding newlines: a single element of the line list.
SQLCMD_BANNER == Join(NL, BannerRows)

Rule == <<"------------------------------------------------------------">>

\* str(path) and path.stem of a path [parent, name]; name is a token
\* sequence in which "." is its own token.
PathStr(p) == p.parent \o <<"/">> \o p.name

Stem(p) ==
    LET dots == {k \in 2..(Len(p.name) - 1) : p.name[k] = "."}
    IN  IF dots = {} THEN p.name
        ELSE SubSeq(p.name, 1, (CHOOSE k \in dots : \A m \in dots : m <= k) - 1)

HeaderLinesSwapped(username, password, sql_script_path) == <<
    SQLCMD_BANNER,
    <<>>,
    <<":setvar USERNAME ", Q>> \o password \o <<Q>>,
    <<":setvar PASSWORD ", Q>> \o username \o <<Q>>,
    <<":setvar SCRIPT ", Q>> \o PathStr(sql_script_path) \o <<Q>>,
    <<>>,
    Rule,
    <<"-- BEGIN EXECUTION">>,
    Rule,
    <<>>,
    <<>> >>

\* lines.extend([...]) of l.92-104.
HeaderLines(username, password, sql_script_path) == <<
    SQLCMD_BANNER,
    <<>>,
    <<":setvar USERNAME ", Q>> \o username \o <<Q>>,
    <<":setvar PASSWORD ", Q>> \o password \o <<Q>>,
    <<":setvar SCRIPT ", Q>> \o PathStr(sql_script_path) \o <<Q>>,
    <<>>,
    Rule,
    <<"-- BEGIN EXECUTION">>,
    Rule,
    <<>>,
    <<>> >>

PrintSeparator ==
    "PRINT '---------------------------------------------------------------------------------------------'"

\* lines.extend([...]) of l.125-134.  The last three string literals have no
\* comma between them, so Python concatenates them into ONE list element:
\* the separator PRINT, "PRINT ''" and the empty string.
BlockLines(i, server, database) == <<
    <<"PRINT '--- [">> \o ToStr(i) \o <<"] ">> \o database \o <<" on ">>
        \o server \o <<" ---'">>,
    <<":CONNECT ">> \o server \o <<" -U $(USERNAME) -P $(PASSWORD)">>,
    <<"USE [">> \o database \o <<"];">>,
    <<":r $(SCRIPT)">>,
    <<"GO">>,
    <<PrintSeparator>> \o <<"PRINT ''">> \o <<>> >>

\* ------------------------------------------------- output path (l.52-60)
TimestampWholeMinutes(t) == ToStr(t \div (TicksPerSecond * 60))

\* datetime.now().strftime("%Y%m%d_%H%M%S"): the clock cut to whole seconds.
Timestamp(t) == ToStr(t \div TicksPerSecond)

\* csv_path.parent / "multiDB_script"
OutputDir(csv_path) == csv_path.parent \o <<"/", "multiDB_script">>

\* output_dir / f"{sql_script_path.stem}_multiDB_{timestamp}.sql"
OutputFile(csv_path, sql_script_path, t) ==
    [dir  |-> OutputDir(csv_path),
     name |-> Stem(sql_script_path) \o <<"_multiDB_">> \o Timestamp(t) \o <<".", "sql">>]

\* ------------------------------------------------------------------ inputs
CsvPath == [parent |-> <<"work">>, name |-> <<"in", ".", "csv">>]

SqlPaths == { [parent |-> <<"sql">>, name |-> <<"check", ".", "sql">>],
              [parent |-> <<"sql">>, name |-> <<"run", ".", "v2", ".", "sql">>] }

Usernames == { <<"a">>, <<"a", Q, "b">> }
Passwords == { <<"b", " ">> }

Headers == { <<ServerCol, DatabaseCol>>,
             <<<<BOM, "server">>, DatabaseCol>>,
             <<DatabaseCol, ServerCol>>,
             <<ServerCol>>,
             <<ServerCol, DatabaseCol, <<"port">>>>,
             <<<<"Server">>, DatabaseCol>> }

ServerFields == { <<"a">>, <<" ", "b", " ">>, <<" ">>, <<"xE9">>, <<"xC3", "xA9">> }
DatabaseFields == { <<"a", " ", "b">>, <<" ">> }

\* Data records: every server/database pair, a blank line, a record with one
\* field, a record with three, and one holding a byte no candidate decodes.
Rows == { <<s, d>> : s \in ServerFields, d \in DatabaseFields }
        \cup { <<>>, <<<<"a">>>>, <<<<"a">>, <<"b">>, <<"a">>>>, <<<<"x81">>, <<"a">>>> }

RunHeaders == { <<ServerCol, DatabaseCol>>, <<DatabaseCol, ServerCol>> }
RunRows == { <<<<" ", "a">>, <<"b">>>>, <<<<"xE9">>, <<"a">>>> }

\* What the table may have been replaced by between two calls.
EditedTables == { <<<<ServerCol, DatabaseCol>>>>,
                  <<<<ServerCol, DatabaseCol>>, <<<<"a">>, <<" ">>>>, <<<<"a">>, <<" ">>>>>>,
                  <<<<ServerCol, DatabaseCol>>, <<<<"a">>>>>> }

SeqsUpTo(S, n) == UNION { [1..k -> S] : k \in 0..n }

\* The empty file, and every header followed by at most MaxRows records.
Files(hs, rs) == { <<>> } \cup { <<h>> \o b : h \in hs, b \in SeqsUpTo(rs, MaxRows) }

\* ------------------------------------------------------------------- state
VARIABLES
    csv,             \* the bytes of the input table at csv_path, as records
    sql_script_path, \* argument
    username,        \* argument
    password,        \* argument
    clock,           \* the wall clock, in ticks
    dirs,            \* filesystem: the directories that exist
    files,           \* filesystem: output path -> [text, run that wrote it]
    runNo,           \* which call of generate_sqlcmd this is
    pc,              \* position in generate_sqlcmd
    now,             \* datetime.now() as read at l.56
    output_file,     \* l.60
    lines,           \* l.63
    f,               \* the handle open_csv_safely returned
    reader,          \* csv.DictReader: fieldnames and the records not yet read
    i,               \* enumerate(reader, start=1)
    error,           \* the exception that left generate_sqlcmd
    shown            \* run_tool: what each finished call showed the user

vars == <<csv, sql_script_path, username, password, clock, dirs, files, runNo,
          pc, now, output_file, lines, f, reader, i, error, shown>>

request == <<csv, sql_script_path, username, password>>
locals == <<now, output_file, lines, f, reader, i, error>>

NoPath == [dir |-> <<>>, name |-> <<>>]
NoHandle == [open |-> FALSE, encoding |-> "none"]
NoReader == [fieldnames |-> <<>>, rest |-> <<>>]

FreshLocals ==
    /\ now = 0
    /\ output_file = NoPath
    /\ lines = <<>>
    /\ f = NoHandle
    /\ reader = NoReader
    /\ i = 0
    /\ error = "none"

\* One call on an empty destination, over every table shape.
Init ==
    /\ csv \in Files(Headers, Rows)
    /\ sql_script_path = [parent |-> <<"sql">>, name |-> <<"check", ".", "sql">>]
    /\ username = <<"a">>
    /\ password = <<"b", " ">>
    /\ clock = 0
    /\ dirs = {}
    /\ files = << >>
    /\ runNo = 1
    /\ pc = "mkdir"
    /\ FreshLocals
    /\ shown = <<>>

\* Repeated calls while the clock runs, over a few tables and every argument.
InitRuns ==
    /\ csv \in Files(RunHeaders, RunRows)
    /\ sql_script_path \in SqlPaths
    /\ username \in Usernames
    /\ password \in Passwords
    /\ clock = 0
    /\ dirs = {}
    /\ files = << >>
    /\ runNo = 1
    /\ pc = "mkdir"
    /\ FreshLocals
    /\ shown = <<>>

\* ------------------------------------------------------- generate_sqlcmd
\* The exceptions that leave generate_sqlcmd, by type and message.
EncodingErrorMessage ==
    "ValueError: Unable to read CSV file. Please save the file as 'CSV UTF-8' and try again."
HeaderErrorMessage ==
    "ValueError: Invalid CSV headers. CSV header must contain exactly: server,database"
NoneStripError == "AttributeError: 'NoneType' object has no attribute 'strip'"
DecodeError == "UnicodeDecodeError"

Raise(e) ==
    /\ pc' = "raised"
    /\ error' = e

MkdirOmitted ==
    /\ pc = "mkdir"
    /\ pc' = "path"
    /\ UNCHANGED <<request, clock, dirs, files, runNo, locals, shown>>

\* l.52-53: output_dir.mkdir(exist_ok=True), the first statement.
Mkdir ==
    /\ pc = "mkdir"
    /\ dirs' = dirs \cup {OutputDir(CsvPath)}
    /\ pc' = "path"
    /\ UNCHANGED <<request, clock, files, runNo, locals, shown>>

\* l.56-60: the timestamp and the output path.
ResolvePath ==
    /\ pc = "path"
    /\ now' = clock
    /\ output_file' = OutputFile(CsvPath, sql_script_path, clock)
    /\ pc' = "header"
    /\ UNCHANGED <<request, clock, dirs, files, runNo, lines, f, reader, i, error, shown>>

EmitHeaderToDisk ==
    /\ pc = "header"
    /\ lines' = HeaderLines(username, password, sql_script_path)
    /\ files' = (output_file :> [text |-> Join(NL, lines'), run |-> runNo]) @@ files
    /\ pc' = "open"
    /\ UNCHANGED <<request, clock, dirs, runNo, now, output_file, f, reader,
                   i, error, shown>>

\* l.63-104: the header block opens the line list.
EmitHeader ==
    /\ pc = "header"
    /\ lines' = HeaderLines(username, password, sql_script_path)
    /\ pc' = "open"
    /\ UNCHANGED <<request, clock, dirs, files, runNo, now, output_file, f, reader,
                   i, error, shown>>

\* Path.open(newline="", encoding=...) builds the text wrapper and reads
\* nothing: no byte is decoded, so no candidate raises UnicodeDecodeError.
OpenRaisesDecodeError(encoding) == FALSE

\* l.144-162: the first candidate whose open() does not raise; 0 when the
\* loop runs out.
open_csv_safely ==
    LET ok == {k \in 1..Len(encodings_to_try) :
                  ~OpenRaisesDecodeError(encodings_to_try[k])}
    IN  IF ok = {} THEN 0 ELSE CHOOSE k \in ok : \A m \in ok : k <= m

\* l.110: with open_csv_safely(csv_path) as f.
OpenCsv ==
    /\ pc = "open"
    /\ IF open_csv_safely = 0
       THEN /\ Raise(EncodingErrorMessage)
            /\ UNCHANGED f
       ELSE /\ f' = [open |-> TRUE, encoding |-> encodings_to_try[open_csv_safely]]
            /\ pc' = "fieldnames"
            /\ UNCHANGED error
    /\ UNCHANGED <<request, clock, dirs, files, runNo, now, output_file, lines, reader,
                   i, shown>>

\* l.111-119: reader.fieldnames reads the first line.  The file is shorter
\* than one read buffer, so this first read decodes all of it with f's
\* encoding; a byte that encoding cannot decode raises here.
ValidateHeader ==
    /\ pc = "fieldnames"
    /\ IF ~Decodable(f.encoding, csv)
       THEN /\ Raise(DecodeError)
            /\ f' = NoHandle
            /\ UNCHANGED reader
       ELSE LET recs == DecodeFile(f.encoding, csv)
                fn   == Fieldnames(recs)
            IN  IF ~HeaderOk(fn)
                THEN /\ Raise(HeaderErrorMessage)
                     /\ f' = NoHandle
                     /\ UNCHANGED reader
                ELSE /\ reader' = [fieldnames |-> fn.names, rest |-> Tail(recs)]
                     /\ pc' = "rows"
                     /\ UNCHANGED <<f, error>>
    /\ UNCHANGED <<request, clock, dirs, files, runNo, now, output_file, lines, i, shown>>

\* l.121-134: one iteration of the loop.
ProcessRow ==
    /\ pc = "rows"
    /\ SkipBlank(reader.rest) /= <<>>
    /\ LET rec      == Head(SkipBlank(reader.rest))
           server   == RowGet(reader.fieldnames, rec, ServerCol)
           database == RowGet(reader.fieldnames, rec, DatabaseCol)
       IN  /\ i' = i + 1
           /\ reader' = [reader EXCEPT !.rest = Tail(SkipBlank(reader.rest))]
           /\ IF server.isNone \/ database.isNone
              THEN /\ Raise(NoneStripError)
                   /\ f' = NoHandle
                   /\ UNCHANGED lines
              ELSE /\ lines' = lines \o BlockLines(i + 1, Strip(server.val), Strip(database.val))
                   /\ UNCHANGED <<pc, f, error>>
    /\ UNCHANGED <<request, clock, dirs, files, runNo, now, output_file, shown>>

\* The reader is exhausted: the with block closes f.
EndRows ==
    /\ pc = "rows"
    /\ SkipBlank(reader.rest) = <<>>
    /\ f' = NoHandle
    /\ pc' = "write"
    /\ UNCHANGED <<request, clock, dirs, files, runNo, now, output_file, lines, reader,
                   i, error, shown>>

\* l.137: output_file.write_text("\n".join(lines), encoding="utf-8").
WriteOutput ==
    /\ pc = "write"
    /\ IF output_file.dir \in dirs
       THEN /\ files' = (output_file :> [text |-> Join(NL, lines), run |-> runNo]) @@ files
            /\ pc' = "return"
            /\ UNCHANGED error
       ELSE /\ Raise("FileNotFoundError")
            /\ UNCHANGED files
    /\ UNCHANGED <<request, clock, dirs, runNo, now, output_file, lines, f, reader, i, shown>>

\* l.139-142: return output_file.  On Windows the folder is opened in the
\* file manager first, which changes nothing the program reads.
Return ==
    /\ pc = "return"
    /\ pc' = "returned"
    /\ UNCHANGED <<request, clock, dirs, files, runNo, locals, shown>>

\* ------------------------------------------------------------- run_tool
\* l.208-216: the finished call's path, or its exception's text, is shown.
ShowResult ==
    /\ pc \in {"returned", "raised"}
    /\ shown' = Append(shown, [ok |-> pc = "returned", output |-> output_file,
                               message |-> error, at |-> now, table |-> csv])
    /\ pc' = "idle"
    /\ UNCHANGED <<request, clock, dirs, files, runNo, locals>>

\* l.186-208: the next click on Generate calls generate_sqlcmd again with
\* the same entries; the table at csv_path is the same or was edited since.
Click ==
    /\ pc = "idle"
    /\ runNo < MaxRuns
    /\ \E table \in {csv} \cup EditedTables : csv' = table
    /\ runNo' = runNo + 1
    /\ pc' = "mkdir"
    /\ now' = 0
    /\ output_file' = NoPath
    /\ lines' = <<>>
    /\ f' = NoHandle
    /\ reader' = NoReader
    /\ i' = 0
    /\ error' = "none"
    /\ UNCHANGED <<sql_script_path, username, password, clock, dirs, files, shown>>

\* Time passes.  The program reads the clock only at l.56, so it is enough
\* to let time pass just before that read.
Tick ==
    /\ pc = "path"
    /\ clock < MaxClock
    /\ clock' = clock + 1
    /\ UNCHANGED <<request, dirs, files, runNo, pc, locals, shown>>

Generate ==
    \/ Mkdir
    \/ ResolvePath
    \/ EmitHeader
    \/ OpenCsv
    \/ ValidateHeader
    \/ ProcessRow
    \/ EndRows
    \/ WriteOutput
    \/ Return

Next == Generate

NextRuns ==
    \/ Generate
    \/ ShowResult
    \/ Click
    \/ Tick

Spec == Init /\ [][Next]_vars

SpecRuns == InitRuns /\ [][NextRuns]_vars

\* ======================================================== reading a result
RECURSIVE SplitLines(_)
\* The lines of a text: the token runs between newline tokens.
SplitLines(t) ==
    LET nl == {k \in 1..Len(t) : t[k] = "\n"}
    IN  IF nl = {} THEN <<t>>
        ELSE LET k == CHOOSE j \in nl : \A m \in nl : j <= m
             IN  <<SubSeq(t, 1, k - 1)>> \o SplitLines(SubSeq(t, k + 1, Len(t)))

Finished == pc \in {"returned", "raised"}
Written == output_file \in DOMAIN files /\ files[output_file].run = runNo
OutputLines == SplitLines(files[output_file].text)

IsProgress(l) == l /= <<>> /\ l[1] = "PRINT '--- ["
IsSetvar(l) == l /= <<>> /\ l[1] \in {":setvar USERNAME ", ":setvar PASSWORD ", ":setvar SCRIPT "}
ProgressLines(L) == SelectSeq(L, IsProgress)

\* The table as the specification reads it: decoded by the first candidate
\* encoding that decodes all of it.
SpecEncoding(file) ==
    IF Decodable("utf-8-sig", file) THEN "utf-8-sig"
    ELSE IF Decodable("cp1252", file) THEN "cp1252" ELSE "none"
SpecTable(file) == DecodeFile(SpecEncoding(file), file)

NotBlankLine(rec) == rec /= <<>>
DataRows(recs) == SelectSeq(Tail(recs), NotBlankLine)

\* A decodable table under the header server,database whose data records
\* all have a server and a database field.
WellFormed(file) ==
    /\ SpecEncoding(file) /= "none"
    /\ file /= <<>>
    /\ SpecTable(file)[1] = <<ServerCol, DatabaseCol>>
    /\ \A k \in 2..Len(file) : file[k] = <<>> \/ Len(file[k]) >= 2

ExpectedProgress(k, row) ==
    <<"PRINT '--- [">> \o ToStr(k) \o <<"] ">> \o Strip(row[2]) \o <<" on ">>
        \o Strip(row[1]) \o <<" ---'">>

ExpectedProgressLines(recs) ==
    [k \in 1..Len(DataRows(recs)) |-> ExpectedProgress(k, DataRows(recs)[k])]

BlankAfterTrim(row) == Strip(row[1]) = <<>> \/ Strip(row[2]) = <<>>

\* ================================================================= claims

\* C1: for every table with a valid header and N >= 0 data rows the call
\* succeeds and its output holds exactly N blocks, the k-th numbered k and
\* carrying the trimmed server and database of the k-th row, in file order,
\* repeats included; a header-only table gives zero blocks.
C1_OneBlockPerRow ==
    (Finished /\ WellFormed(csv)) =>
        /\ pc = "returned"
        /\ Written
        /\ ProgressLines(OutputLines) = ExpectedProgressLines(SpecTable(csv))

C3_BlankFieldRejected ==
    (/\ Finished
     /\ WellFormed(csv)
     /\ \E k \in 1..Len(DataRows(SpecTable(csv))) :
            BlankAfterTrim(DataRows(SpecTable(csv))[k]))
        => (pc = "raised" /\ ~Written)

\* C4: a table that utf-8-sig cannot decode and cp1252 can is read with
\* cp1252: the call succeeds, its blocks carry the cp1252-decoded values, and
\* the first candidate's decode error does not leave generate_sqlcmd.
C4_FallsBackToCp1252 ==
    (/\ Finished
     /\ ~Decodable("utf-8-sig", csv)
     /\ Decodable("cp1252", csv)
     /\ WellFormed(csv))
        => /\ error /= DecodeError
           /\ pc = "returned"
           /\ Written
           /\ ProgressLines(OutputLines) = ExpectedProgressLines(DecodeFile("cp1252", csv))

\* C8: a table no candidate encoding decodes fails with the error that tells
\* the user to save the file as UTF-8, and nothing is written.
C8_UndecodableGivesGuidance ==
    (Finished /\ SpecEncoding(csv) = "none")
        => (pc = "raised" /\ error = EncodingErrorMessage /\ ~Written)

\* C9: in the written text every block is the progress line, the :CONNECT
\* line, the USE line, the :r $(SCRIPT) line, GO on a line of its own, and
\* ends with a blank line, so a blank line stands before the next block.
C9_BlockEndsWithBlankLine ==
    (pc = "returned") =>
        LET L == OutputLines
            starts == {j \in 1..Len(L) : IsProgress(L[j])}
            BlockEnd(j) == IF \E m \in starts : m > j
                           THEN (CHOOSE m \in starts : m > j /\ \A n \in starts : n > j => m <= n) - 1
                           ELSE Len(L)
        IN  \A j \in starts :
                /\ j + 5 <= Len(L)
                /\ L[j + 1] /= <<>> /\ L[j + 1][1] = ":CONNECT "
                /\ L[j + 2] /= <<>> /\ L[j + 2][1] = "USE ["
                /\ L[j + 3] = <<":r $(SCRIPT)">>
                /\ L[j + 4] = <<"GO">>
                /\ L[BlockEnd(j)] = <<>>

\* C5: the output file is written only after the header and every data row
\* were read and validated; a call that fails leaves no file of its own, whole
\* or partial, at its output path.
C5_WrittenOnlyAfterAllRows ==
    \A p \in DOMAIN files :
        files[p].run = runNo =>
            /\ p = output_file
            /\ pc \in {"return", "returned", "idle"}
            /\ error = "none"
            /\ reader.fieldnames = <<ServerCol, DatabaseCol>>
            /\ SkipBlank(reader.rest) = <<>>
            /\ i = Len(DataRows(SpecTable(csv)))
            /\ files[p].text = Join(NL, lines)

\* A later call fails on a row while an earlier call's file stands at the
\* very same path.
C5_FailedOverEarlierFile ==
    /\ pc = "raised"
    /\ error = NoneStripError
    /\ output_file \in DOMAIN files
    /\ files[output_file].run < runNo

SecondOf(t) == t \div TicksPerSecond

C10_DirCreatedAfterValidation ==
    /\ (OutputDir(CsvPath) \in dirs) => pc \in {"write", "return", "returned"}
    /\ (pc = "raised" /\ error \in {HeaderErrorMessage, NoneStripError}) => dirs = {}

\* C10 as amended: the steps run in the order create the destination
\* directory, resolve the output path, assemble the header block, open the
\* table, validate the header, process every row, write, return.  The
\* directory is created first, so a call that fails on the header or on a row
\* leaves multiDB_script behind, and no output file.
C10_DirCreatedFirst ==
    /\ (pc /= "mkdir") => OutputDir(CsvPath) \in dirs
    /\ (output_file /= NoPath) <=> (pc \notin {"mkdir", "path"})
    /\ (lines /= <<>>) <=> (pc \notin {"mkdir", "path", "header"})
    /\ f.open => pc \in {"fieldnames", "rows"}
    /\ (reader /= NoReader) => pc \in {"rows", "write", "return", "returned", "raised"}
    /\ (i > 0) => reader.fieldnames = <<ServerCol, DatabaseCol>>
    /\ Written => (pc \in {"return", "returned"} /\ SkipBlank(reader.rest) = <<>>)
    /\ (pc = "raised") => (OutputDir(CsvPath) \in dirs /\ ~Written)

C10_FailedRunLeavesDirectory ==
    /\ pc = "raised"
    /\ error = NoneStripError
    /\ i >= 2
    /\ dirs = {OutputDir(CsvPath)}
    /\ DOMAIN files = {}
====
